---------------------------- MODULE Spec2Model ----------------------------
(***************************************************************************)
(* Model of src/main.py: the emergency lookup fallback chain               *)
(* (emergency_lookup, local_emergency), the keyword triage responder       *)
(* (generate_bot_reply) and the /ws/chat receive-reply loop                *)
(* (websocket_endpoint).                                                   *)
(*                                                                         *)
(* Python strings are sequences of one-character strings, so that          *)
(* str.lower, str.strip and the substring test `k in t` are computed       *)
(* character by character.  Python's None is the one-element sequence      *)
(* None, which no string equals.                                           *)
(***************************************************************************)
EXTENDS Integers, Sequences, FiniteSets, TLC

VARIABLES
    \* POST /api/chat: the request's message, the reply, the handler's position
    chatText, chatReply, chatPc,
    \* local_emergency: the country code passed, the number returned, position
    cc, number, lookupPc,
    \* GET /api/emergency: the query parameters
    q, lat, lon, country,
    \* emergency_lookup's locals, its position, and what the request ended in
    name, address, phone, emPc, result,
    \* the outbound geocoding calls of the request and the last one's outcome
    calls, resp,
    \* name and phone as the try block (lines 113-144) left them, and whether
    \* the SAMPLE_HOSPITALS loop (lines 147-153) was entered
    triedName, triedPhone, scanned,
    \* /ws/chat, per connection: the handler's position and its local text,
    \* the peer's messages in flight, whether the peer is still connected,
    \* the texts received and the replies sent so far, how the handler ended
    wsPc, wsText, inbox, peerOpen, received, sent, ended

chatVars == <<chatText, chatReply, chatPc>>
lookupVars == <<cc, number, lookupPc>>
emInputs == <<q, lat, lon, country>>
emVars == <<q, lat, lon, country, name, address, phone, emPc, result,
            calls, resp, triedName, triedPhone, scanned>>
wsVars == <<wsPc, wsText, inbox, peerOpen, received, sent, ended>>
vars == <<chatText, chatReply, chatPc, cc, number, lookupPc,
          q, lat, lon, country, name, address, phone, emPc, result,
          calls, resp, triedName, triedPhone, scanned,
          wsPc, wsText, inbox, peerOpen, received, sent, ended>>

-----------------------------------------------------------------------------
(* Bounds of the model. *)

\* Longest chat text, counted in fragments of TextFragments.
MaxFrags == 3

\* Longest free-form country code, in characters of CcAlphabet.
MaxCcLen == 3

\* Most messages a peer sends on one /ws/chat connection.
MaxMsgs == 2

\* The /ws/chat connections served concurrently.
Conns == {"c1", "c2"}

-----------------------------------------------------------------------------
(* Python values and string methods. *)

None == <<"None">>

\* Python truthiness of an Optional[str]: None and "" are falsy.
Truthy(v) == v /= None /\ v /= <<>>

UpperLetters == <<"A", "B", "C", "D", "E", "F", "G", "H", "I", "J", "K", "L", "M", "N", "O", "P", "Q", "R", "S", "T", "U", "V", "W", "X", "Y", "Z">>
LowerLetters == <<"a", "b", "c", "d", "e", "f", "g", "h", "i", "j", "k", "l", "m", "n", "o", "p", "q", "r", "s", "t", "u", "v", "w", "x", "y", "z">>

LowerChar(c) ==
    IF \E i \in 1..Len(UpperLetters) : UpperLetters[i] = c
    THEN LowerLetters[CHOOSE i \in 1..Len(UpperLetters) : UpperLetters[i] = c]
    ELSE c

\* str.lower()
Lower(s) == [i \in 1..Len(s) |-> LowerChar(s[i])]

Whitespace == {" ", "\t", "\n", "\r"}

\* str.strip(): drop leading and trailing whitespace.
Strip(s) ==
    LET keep == {i \in 1..Len(s) : s[i] \notin Whitespace}
    IN  IF keep = {} THEN <<>>
        ELSE LET lo == CHOOSE i \in keep : \A j \in keep : i <= j
                 hi == CHOOSE i \in keep : \A j \in keep : j <= i
             IN  SubSeq(s, lo, hi)

\* The substring test `k in t`.
Contains(t, k) ==
    \E i \in 0..(Len(t) - Len(k)) : SubSeq(t, i + 1, i + Len(k)) = k

\* any(k in t for k in keywords)
AnyIn(keywords, t) == \E i \in 1..Len(keywords) : Contains(t, keywords[i])

-----------------------------------------------------------------------------
(* Idle values of the parts a specification does not exercise. *)

ChatIdle == chatText = <<>> /\ chatReply = "<no reply>" /\ chatPc = "idle"
LookupIdle == cc = None /\ number = None /\ lookupPc = "idle"
EmIdle ==
    /\ q = None /\ lat = None /\ lon = None /\ country = None
    /\ name = None /\ address = None /\ phone = None
    /\ emPc = "idle" /\ result = "pending"
    /\ calls = <<>> /\ resp = [kind |-> "no call"]
    /\ triedName = None /\ triedPhone = None /\ scanned = FALSE
WsIdle ==
    /\ wsPc = [c \in Conns |-> "idle"]
    /\ wsText = [c \in Conns |-> None]
    /\ inbox = [c \in Conns |-> <<>>]
    /\ peerOpen = [c \in Conns |-> FALSE]
    /\ received = [c \in Conns |-> <<>>]
    /\ sent = [c \in Conns |-> <<>>]
    /\ ended = [c \in Conns |-> "running"]

-----------------------------------------------------------------------------
(* DEFAULT_EMERGENCY_NUMBERS and local_emergency *)

DEFAULT_EMERGENCY_NUMBERS ==
    << [key |-> <<"g", "l", "o", "b", "a", "l">>, value |-> <<"1", "1", "2">>],
       [key |-> <<"u", "s">>, value |-> <<"9", "1", "1">>],
       [key |-> <<"u", "k">>, value |-> <<"9", "9", "9">>],
       [key |-> <<"e", "u">>, value |-> <<"1", "1", "2">>],
       [key |-> <<"i", "n">>, value |-> <<"1", "1", "2">>] >>

HasKey(d, k) == \E i \in 1..Len(d) : d[i].key = k

\* d[k]
Item(d, k) == d[CHOOSE i \in 1..Len(d) : d[i].key = k].value

\* d.get(k, default)
Get(d, k, default) == IF HasKey(d, k) THEN Item(d, k) ELSE default

\* A slip: .get() without its default, so an unknown code gives None.
local_emergency_no_default(code) ==
    IF ~Truthy(code) THEN Item(DEFAULT_EMERGENCY_NUMBERS, <<"g", "l", "o", "b", "a", "l">>)
    ELSE Get(DEFAULT_EMERGENCY_NUMBERS, Lower(code), None)

\* A slip: the code is looked up as given, without cc.lower().
local_emergency_as_given(code) ==
    IF ~Truthy(code) THEN Item(DEFAULT_EMERGENCY_NUMBERS, <<"g", "l", "o", "b", "a", "l">>)
    ELSE Get(DEFAULT_EMERGENCY_NUMBERS, code,
             Item(DEFAULT_EMERGENCY_NUMBERS, <<"g", "l", "o", "b", "a", "l">>))

local_emergency(code) ==
    IF ~Truthy(code) THEN Item(DEFAULT_EMERGENCY_NUMBERS, <<"g", "l", "o", "b", "a", "l">>)
    ELSE Get(DEFAULT_EMERGENCY_NUMBERS, Lower(code),
             Item(DEFAULT_EMERGENCY_NUMBERS, <<"g", "l", "o", "b", "a", "l">>))

CcAlphabet == {"u", "U", "s", "S", "a", "-"}

RECURSIVE CodesOf(_)
CodesOf(n) ==
    IF n = 0 THEN {<<>>}
    ELSE LET shorter == CodesOf(n - 1)
         IN  shorter \cup {Append(s, c) : s \in shorter, c \in CcAlphabet}

CountryCodes ==
    CodesOf(MaxCcLen)
        \cup { None, <<"u", "k">>, <<"U", "K">>, <<"U", "k">>, <<"i", "n">>, <<"I", "N">>, <<"e", "u">>, <<"E", "u">>, <<"f", "r">>,
               <<"g", "l", "o", "b", "a", "l">>, <<"G", "L", "O", "B", "A", "L">>, <<"u", "s", "-", "c", "a">> }

LookupInit ==
    /\ cc \in CountryCodes
    /\ number = None
    /\ lookupPc = "call"
    /\ ChatIdle /\ EmIdle /\ WsIdle

Lookup ==
    /\ lookupPc = "call"
    /\ number' = local_emergency(cc)
    /\ lookupPc' = "done"
    /\ UNCHANGED <<cc, chatVars, emVars, wsVars>>

LookupNext == Lookup

SpecLookup == LookupInit /\ [][LookupNext]_vars

-----------------------------------------------------------------------------
(* The external geocoding service, as requests.get and r.json() show it. *)

\* JSON values that are not strings: a missing key, null, a non-empty array.
Absent == <<"absent">>
JsonNull == <<"null">>
JsonArray == <<"array">>

\* isinstance(v, str), as EmergencyResponse's str fields require.
IsStr(v) == v \notin {None, Absent, JsonNull, JsonArray}

DisplayNames == {Absent, JsonNull, <<>>, <<"G", "e", "n", "e", "r", "a", "l", " ", "H", "o", "s", "p", "i", "t", "a", "l", ",", " ", "S", "p", "r", "i", "n", "g", "f", "i", "e", "l", "d">>, JsonArray}
PhoneTags == {Absent, JsonNull, <<>>, <<"+", "1", " ", "5", "5", "5", " ", "0", "1", "0", "0">>, JsonArray}

\* The first element of a result list: not a JSON object, or an object with
\* display_name and extratags missing, null, of another type, or as expected.
Items ==
    {[isObject |-> FALSE, display_name |-> Absent, extratags |-> "absent",
      phoneTag |-> Absent]}
    \cup [isObject : {TRUE}, display_name : DisplayNames,
          extratags : {"absent", "null", "scalar"}, phoneTag : {Absent}]
    \cup [isObject : {TRUE}, display_name : DisplayNames,
          extratags : {"object"}, phoneTag : PhoneTags]

\* What one requests.get(..., timeout=5) can end in: an exception (network
\* failure, timeout), an error status, a body that is not JSON, JSON that is
\* not a list, an empty list, a list.
Responses ==
    {[kind |-> k] : k \in {"exception", "not ok", "not json", "not a list",
                           "empty list"}}
    \cup {[kind |-> "list", item |-> it] : it \in Items}

\* dict.get(key, default): a missing key gives the default, null gives None.
JsonGet(v, default) ==
    IF v = Absent THEN default ELSE IF v = JsonNull THEN None ELSE v

\* Lines 127-131 (and 137-141): name, address and phone as one response
\* leaves them; an exception at any point keeps what was assigned before it.
Extract(r) ==
    IF r.kind /= "list" \/ ~r.item.isObject
    THEN [name |-> None, address |-> None, phone |-> None]
    ELSE [name |-> JsonGet(r.item.display_name, <<"N", "e", "a", "r", "e", "s", "t", " ", "H", "o", "s", "p", "i", "t", "a", "l">>),
          address |-> JsonGet(r.item.display_name, None),
          phone |-> IF r.item.extratags = "object"
                    THEN JsonGet(r.item.phoneTag, None)
                    ELSE None]

-----------------------------------------------------------------------------
(* emergency_lookup *)

SAMPLE_HOSPITALS ==
    << [city |-> <<"s", "a", "n", " ", "f", "r", "a", "n", "c", "i", "s", "c", "o">>,
        name |-> <<"Z", "u", "c", "k", "e", "r", "b", "e", "r", "g", " ", "S", "a", "n", " ", "F", "r", "a", "n", "c", "i", "s", "c", "o", " ", "G", "e", "n", "e", "r", "a", "l", " ", "H", "o", "s", "p", "i", "t", "a", "l">>,
        phone |-> <<"+", "1", " ", "6", "2", "8", "-", "2", "0", "6", "-", "8", "0", "0", "0">>,
        address |-> <<"1", "0", "0", "1", " ", "P", "o", "t", "r", "e", "r", "o", " ", "A", "v", "e", ",", " ", "S", "a", "n", " ", "F", "r", "a", "n", "c", "i", "s", "c", "o", ",", " ", "C", "A">>],
       [city |-> <<"n", "e", "w", " ", "y", "o", "r", "k">>,
        name |-> <<"N", "Y", "U", " ", "L", "a", "n", "g", "o", "n", "e", " ", "H", "e", "a", "l", "t", "h">>,
        phone |-> <<"+", "1", " ", "2", "1", "2", "-", "2", "6", "3", "-", "7", "3", "0", "0">>,
        address |-> <<"5", "5", "0", " ", "1", "s", "t", " ", "A", "v", "e", ",", " ", "N", "e", "w", " ", "Y", "o", "r", "k", ",", " ", "N", "Y">>],
       [city |-> <<"l", "o", "n", "d", "o", "n">>,
        name |-> <<"S", "t", " ", "T", "h", "o", "m", "a", "s", "'", " ", "H", "o", "s", "p", "i", "t", "a", "l">>,
        phone |-> <<"+", "4", "4", " ", "2", "0", " ", "7", "1", "8", "8", " ", "7", "1", "8", "8">>,
        address |-> <<"W", "e", "s", "t", "m", "i", "n", "s", "t", "e", "r", " ", "B", "r", "i", "d", "g", "e", " ", "R", "d", ",", " ", "L", "o", "n", "d", "o", "n">>],
       [city |-> <<"b", "a", "n", "g", "a", "l", "o", "r", "e">>,
        name |-> <<"M", "a", "n", "i", "p", "a", "l", " ", "H", "o", "s", "p", "i", "t", "a", "l">>,
        phone |-> <<"+", "9", "1", " ", "8", "0", " ", "2", "5", "0", "2", " ", "5", "5", "5", "5">>,
        address |-> <<"H", "A", "L", " ", "O", "l", "d", " ", "A", "i", "r", "p", "o", "r", "t", " ", "R", "d", ",", " ", "B", "e", "n", "g", "a", "l", "u", "r", "u">>] >>

Queries ==
    { None, <<>>, <<"d", "o", "w", "n", "t", "o", "w", "n", " ", "s", "a", "n", " ", "f", "r", "a", "n", "c", "i", "s", "c", "o", " ", "c", "l", "i", "n", "i", "c">>, <<"L", "o", "n", "d", "o", "n", " ", "o", "r", " ", "N", "e", "w", " ", "Y", "o", "r", "k">>,
      <<"B", "A", "N", "G", "A", "L", "O", "R", "E">>, <<"n", "o", "w", "h", "e", "r", "e">> }

\* Coordinates are only tested against None and formatted into the viewbox.
Coordinates == { None, <<"0", ".", "0">>, <<"3", "7", ".", "7", "7">> }

Countries == { None, <<>>, <<"u", "s">>, <<"U", "S">>, <<"U", "S", "A">>, <<"u", "k">>, <<"f", "r">> }

EmergencyInit ==
    /\ q \in Queries
    /\ lat \in Coordinates
    /\ lon \in Coordinates
    /\ country \in Countries
    /\ name = None /\ address = None /\ phone = None
    /\ emPc = "search" /\ result = "pending"
    /\ calls = <<>> /\ resp = [kind |-> "no call"]
    /\ triedName = None /\ triedPhone = None /\ scanned = FALSE
    /\ ChatIdle /\ LookupIdle /\ WsIdle

\* A slip: one coordinate alone starts the coordinate search.
SearchFor_either_coordinate(lat_, lon_, q_) ==
    IF lat_ /= None \/ lon_ /= None THEN <<"coordinates">>
    ELSE IF Truthy(q_) THEN <<"text">>
    ELSE <<>>

\* Lines 114 and 132: which search the request issues, if any.
SearchFor(lat_, lon_, q_) ==
    IF lat_ /= None /\ lon_ /= None THEN <<"coordinates">>
    ELSE IF Truthy(q_) THEN <<"text">>
    ELSE <<>>

\* Lines 113-144: the one outbound search and what it leaves in the locals.
Search ==
    /\ emPc = "search"
    /\ calls' = SearchFor(lat, lon, q)
    /\ IF calls' = <<>>
       THEN /\ resp' = [kind |-> "no call"]
            /\ UNCHANGED <<name, address, phone>>
       ELSE \E r \in Responses :
                /\ resp' = r
                /\ name' = Extract(r).name
                /\ address' = Extract(r).address
                /\ phone' = Extract(r).phone
    /\ triedName' = name'
    /\ triedPhone' = phone'
    /\ emPc' = "samples"
    /\ UNCHANGED <<emInputs, result, scanned, chatVars, lookupVars, wsVars>>

\* A slip: the loop has no break, so the last match stays.
FirstSample_no_break(text) ==
    LET hits == {i \in 1..Len(SAMPLE_HOSPITALS) :
                    Contains(text, SAMPLE_HOSPITALS[i].city)}
    IN  IF hits = {} THEN 0 ELSE CHOOSE i \in hits : \A j \in hits : j <= i

\* Lines 148-153: the index of the first sample, in table order, whose city
\* is contained in the text, or 0.
FirstSample(text) ==
    LET hits == {i \in 1..Len(SAMPLE_HOSPITALS) :
                    Contains(text, SAMPLE_HOSPITALS[i].city)}
    IN  IF hits = {} THEN 0 ELSE CHOOSE i \in hits : \A j \in hits : i <= j

\* A slip: the samples are scanned whenever q is given, named or not.
Samples_whenever_q ==
    /\ emPc = "samples"
    /\ IF Truthy(q)
       THEN /\ scanned' = TRUE
            /\ LET h == FirstSample(Lower(q))
               IN  IF h = 0
                   THEN UNCHANGED <<name, address, phone>>
                   ELSE /\ name' = SAMPLE_HOSPITALS[h].name
                        /\ address' = SAMPLE_HOSPITALS[h].address
                        /\ phone' = SAMPLE_HOSPITALS[h].phone
       ELSE UNCHANGED <<name, address, phone, scanned>>
    /\ emPc' = "placeholder"
    /\ UNCHANGED <<emInputs, result, calls, resp, triedName, triedPhone,
                   chatVars, lookupVars, wsVars>>

\* Lines 146-153.
Samples ==
    /\ emPc = "samples"
    /\ IF ~Truthy(name) /\ Truthy(q)
       THEN /\ scanned' = TRUE
            /\ LET h == FirstSample(Lower(q))
               IN  IF h = 0
                   THEN UNCHANGED <<name, address, phone>>
                   ELSE /\ name' = SAMPLE_HOSPITALS[h].name
                        /\ address' = SAMPLE_HOSPITALS[h].address
                        /\ phone' = SAMPLE_HOSPITALS[h].phone
       ELSE UNCHANGED <<name, address, phone, scanned>>
    /\ emPc' = "placeholder"
    /\ UNCHANGED <<emInputs, result, calls, resp, triedName, triedPhone,
                   chatVars, lookupVars, wsVars>>

\* Lines 155-157.
Placeholder ==
    /\ emPc = "placeholder"
    /\ IF ~Truthy(name)
       THEN /\ name' = <<"N", "e", "a", "r", "e", "s", "t", " ", "E", "m", "e", "r", "g", "e", "n", "c", "y", " ", "H", "o", "s", "p", "i", "t", "a", "l">>
            /\ address' = (IF Truthy(q) THEN q ELSE <<"Y", "o", "u", "r", " ", "a", "r", "e", "a">>)
       ELSE UNCHANGED <<name, address>>
    /\ emPc' = "phone"
    /\ UNCHANGED <<emInputs, phone, result, calls, resp, triedName, triedPhone,
                   scanned, chatVars, lookupVars, wsVars>>

\* A slip: only a missing phone is replaced, an empty one is kept.
LocalPhone_if_none(phone_, country_) ==
    IF phone_ = None THEN <<"L", "o", "c", "a", "l", " ", "e", "m", "e", "r", "g", "e", "n", "c", "y", ":", " ">> \o local_emergency(country_)
    ELSE phone_

\* Lines 159-160.
LocalPhone(phone_, country_) ==
    IF ~Truthy(phone_) THEN <<"L", "o", "c", "a", "l", " ", "e", "m", "e", "r", "g", "e", "n", "c", "y", ":", " ">> \o local_emergency(country_)
    ELSE phone_

Phone ==
    /\ emPc = "phone"
    /\ phone' = LocalPhone(phone, country)
    /\ emPc' = "return"
    /\ UNCHANGED <<emInputs, name, address, result, calls, resp, triedName,
                   triedPhone, scanned, chatVars, lookupVars, wsVars>>

\* EmergencyResponse(...): name and phone are str, address is Optional[str];
\* a value of another type makes the constructor raise.
Validates(name_, address_, phone_) ==
    /\ IsStr(name_)
    /\ address_ = None \/ IsStr(address_)
    /\ IsStr(phone_)

\* Line 162.
Return ==
    /\ emPc = "return"
    /\ result' = IF Validates(name, address, phone) THEN "record" ELSE "error"
    /\ emPc' = "done"
    /\ UNCHANGED <<emInputs, name, address, phone, calls, resp, triedName,
                   triedPhone, scanned, chatVars, lookupVars, wsVars>>

EmergencyNext == Search \/ Samples \/ Placeholder \/ Phone \/ Return

SpecEmergency == EmergencyInit /\ [][EmergencyNext]_vars

-----------------------------------------------------------------------------
(* generate_bot_reply *)

EmergencyKeywords == << <<"e", "m", "e", "r", "g", "e", "n", "c", "y">>, <<"b", "l", "e", "e", "d", "i", "n", "g">>, <<"u", "n", "c", "o", "n", "s", "c", "i", "o", "u", "s">>, <<"c", "h", "e", "s", "t", " ", "p", "a", "i", "n">> >>
FeverKeywords == << <<"f", "e", "v", "e", "r">>, <<"t", "e", "m", "p", "e", "r", "a", "t", "u", "r", "e">>, <<"f", "l", "u">> >>
HeadacheKeywords == << <<"h", "e", "a", "d", "a", "c", "h", "e">>, <<"m", "i", "g", "r", "a", "i", "n", "e">> >>
RespiratoryKeywords == << <<"c", "o", "v", "i", "d">>, <<"c", "o", "u", "g", "h">>, <<"c", "o", "l", "d">> >>

GreetingReply == "Hello! I'm your medical assistant. How can I help you today?"
EmergencyReply == "This may be an emergency. Please call your local emergency number immediately or visit the nearest hospital. Do you want me to find nearby hospitals?"
FeverReply == "For fever, rest, stay hydrated, and consider acetaminophen as directed. If fever persists >48 hours or is very high, consult a doctor."
HeadacheReply == "Headaches can have many causes. Try hydration, rest, and avoiding bright screens. Seek care if it's severe, sudden, or with neurological symptoms."
RespiratoryReply == "If you have cough or cold symptoms, rest, fluids, and isolation may help. Test if concerned and seek care for breathing difficulty."
DefaultReply == "I hear you. Could you share a bit more about your symptoms, duration, and any medications? I'll guide you next."

\* A slip: the fever keywords are tried before the emergency keywords.
generate_bot_reply_fever_first(text) ==
    LET t == Lower(Strip(IF Truthy(text) THEN text ELSE <<>>))
    IN  IF t = <<>> THEN GreetingReply
        ELSE IF AnyIn(FeverKeywords, t) THEN FeverReply
        ELSE IF AnyIn(EmergencyKeywords, t) THEN EmergencyReply
        ELSE IF AnyIn(HeadacheKeywords, t) THEN HeadacheReply
        ELSE IF AnyIn(RespiratoryKeywords, t) THEN RespiratoryReply
        ELSE DefaultReply

\* A slip: the text is trimmed but not lowercased.
generate_bot_reply_no_lower(text) ==
    LET t == Strip(IF Truthy(text) THEN text ELSE <<>>)
    IN  IF t = <<>> THEN GreetingReply
        ELSE IF AnyIn(EmergencyKeywords, t) THEN EmergencyReply
        ELSE IF AnyIn(FeverKeywords, t) THEN FeverReply
        ELSE IF AnyIn(HeadacheKeywords, t) THEN HeadacheReply
        ELSE IF AnyIn(RespiratoryKeywords, t) THEN RespiratoryReply
        ELSE DefaultReply

generate_bot_reply(text) ==
    LET t == Lower(Strip(IF Truthy(text) THEN text ELSE <<>>))
    IN  IF t = <<>> THEN GreetingReply
        ELSE IF AnyIn(EmergencyKeywords, t) THEN EmergencyReply
        ELSE IF AnyIn(FeverKeywords, t) THEN FeverReply
        ELSE IF AnyIn(HeadacheKeywords, t) THEN HeadacheReply
        ELSE IF AnyIn(RespiratoryKeywords, t) THEN RespiratoryReply
        ELSE DefaultReply

-----------------------------------------------------------------------------
(* POST /api/chat: one message, one reply. *)

TextFragments ==
    { <<" ">>, <<"\t">>, <<"I", " ", "h", "a", "v", "e", " ", "a", " ">>, <<" ", "a", "n", "d", " ">>, <<"u", "n", "r", "e", "l", "a", "t", "e", "d", " ", "t", "e", "x", "t">>,
      <<"c", "h", "e", "s", "t", " ", "p", "a", "i", "n">>, <<"E", "m", "e", "r", "g", "e", "n", "c", "y">>, <<"F", "e", "v", "e", "r">>, <<"f", "l", "u">>,
      <<"H", "E", "A", "D", "A", "C", "H", "E">>, <<"m", "i", "g", "r", "a", "i", "n", "e">>, <<"c", "o", "u", "g", "h">>, <<"C", "o", "l", "d">> }

RECURSIVE TextsOf(_)
TextsOf(n) ==
    IF n = 0 THEN {<<>>}
    ELSE LET shorter == TextsOf(n - 1)
         IN  shorter \cup {s \o f : s \in shorter, f \in TextFragments}

Texts == TextsOf(MaxFrags)

ChatInit ==
    /\ chatText \in Texts
    /\ chatReply = "<no reply>"
    /\ chatPc = "request"
    /\ LookupIdle /\ EmIdle /\ WsIdle

chat ==
    /\ chatPc = "request"
    /\ chatReply' = generate_bot_reply(chatText)
    /\ chatPc' = "done"
    /\ UNCHANGED <<chatText, lookupVars, emVars, wsVars>>

ChatNext == chat

SpecChat == ChatInit /\ [][ChatNext]_vars

-----------------------------------------------------------------------------
(* websocket_endpoint: the /ws/chat receive-reply loop, one per connection. *)

WsTexts == { <<"h", "e", "a", "d", "a", "c", "h", "e">>, <<"u", "n", "r", "e", "l", "a", "t", "e", "d", " ", "t", "e", "x", "t">> }

WsInit ==
    /\ wsPc = [c \in Conns |-> "accept"]
    /\ wsText = [c \in Conns |-> None]
    /\ inbox = [c \in Conns |-> <<>>]
    /\ peerOpen = [c \in Conns |-> TRUE]
    /\ received = [c \in Conns |-> <<>>]
    /\ sent = [c \in Conns |-> <<>>]
    /\ ended = [c \in Conns |-> "running"]
    /\ ChatIdle /\ LookupIdle /\ EmIdle

\* Line 188: await websocket.accept().
accept(c) ==
    /\ wsPc[c] = "accept"
    /\ wsPc' = [wsPc EXCEPT ![c] = "receive"]
    /\ UNCHANGED <<wsText, inbox, peerOpen, received, sent, ended,
                   chatVars, lookupVars, emVars>>

\* The peer sends a text message on its established connection.
PeerSend(c) ==
    /\ wsPc[c] \in {"receive", "send"}
    /\ peerOpen[c]
    /\ Len(received[c]) + Len(inbox[c]) < MaxMsgs
    /\ \E m \in WsTexts : inbox' = [inbox EXCEPT ![c] = Append(@, m)]
    /\ UNCHANGED <<wsPc, wsText, peerOpen, received, sent, ended, chatVars, lookupVars, emVars>>

\* The peer disconnects; what it sent before is still delivered in order.
PeerDisconnect(c) ==
    /\ wsPc[c] \in {"receive", "send"}
    /\ peerOpen[c]
    /\ peerOpen' = [peerOpen EXCEPT ![c] = FALSE]
    /\ UNCHANGED <<wsPc, wsText, inbox, received, sent, ended, chatVars, lookupVars, emVars>>

\* Line 191: await websocket.receive_text() returns the next text, or raises
\* WebSocketDisconnect once the peer is gone, which lines 194-195 swallow.
receive_text(c) ==
    /\ wsPc[c] = "receive"
    /\ IF inbox[c] /= <<>>
       THEN /\ wsText' = [wsText EXCEPT ![c] = Head(inbox[c])]
            /\ inbox' = [inbox EXCEPT ![c] = Tail(@)]
            /\ received' = [received EXCEPT ![c] = Append(@, Head(inbox[c]))]
            /\ wsPc' = [wsPc EXCEPT ![c] = "send"]
            /\ UNCHANGED ended
       ELSE /\ ~peerOpen[c]
            /\ wsPc' = [wsPc EXCEPT ![c] = "closed"]
            /\ ended' = [ended EXCEPT ![c] = "normal"]
            /\ UNCHANGED <<wsText, inbox, received>>
    /\ UNCHANGED <<peerOpen, sent, chatVars, lookupVars, emVars>>

\* A slip: the reply is computed from everything received on the connection.
ReplyTo_with_history(c) ==
    generate_bot_reply(
        IF Len(received[c]) > 1 THEN received[c][1] \o <<" ">> \o wsText[c]
        ELSE wsText[c])

\* Line 192: reply = generate_bot_reply(text).
ReplyTo(c) == generate_bot_reply(wsText[c])

\* Lines 192-193: the reply is computed and sent.  To a peer that is gone
\* send_text either hands the reply to a transport that drops it or raises
\* WebSocketDisconnect, which lines 194-195 swallow like the one of line 191.
send_text(c) ==
    /\ wsPc[c] = "send"
    /\ \/ /\ sent' = [sent EXCEPT ![c] = Append(@, ReplyTo(c))]
          /\ wsPc' = [wsPc EXCEPT ![c] = "receive"]
          /\ UNCHANGED ended
       \/ /\ ~peerOpen[c]
          /\ wsPc' = [wsPc EXCEPT ![c] = "closed"]
          /\ ended' = [ended EXCEPT ![c] = "normal"]
          /\ UNCHANGED sent
    /\ UNCHANGED <<wsText, inbox, peerOpen, received, chatVars, lookupVars, emVars>>

WsNext ==
    \/ \E c \in Conns : accept(c)
    \/ \E c \in Conns : PeerSend(c)
    \/ \E c \in Conns : PeerDisconnect(c)
    \/ \E c \in Conns : receive_text(c)
    \/ \E c \in Conns : send_text(c)

SpecWs == WsInit /\ [][WsNext]_vars

-----------------------------------------------------------------------------
(* Properties of generate_bot_reply, checked under SpecChat. *)

\* The trimmed, lowercased form of the request's message.
NormalizedText == Lower(Strip(chatText))

\* C3: for a text that is not empty after normalization the categories are
\* tried in the order emergency, fever, headache, respiratory, default and
\* the first one with a keyword contained in the normalized text decides the
\* reply; the generic prompt is returned exactly when no keyword is contained.
C3_CategoryPrecedence ==
    (chatPc = "done" /\ NormalizedText /= <<>>) =>
        LET em == AnyIn(EmergencyKeywords, NormalizedText)
            fe == AnyIn(FeverKeywords, NormalizedText)
            he == AnyIn(HeadacheKeywords, NormalizedText)
            re == AnyIn(RespiratoryKeywords, NormalizedText)
        IN  /\ em => chatReply = EmergencyReply
            /\ (~em /\ fe) => chatReply = FeverReply
            /\ (~em /\ ~fe /\ he) => chatReply = HeadacheReply
            /\ (~em /\ ~fe /\ ~he /\ re) => chatReply = RespiratoryReply
            /\ (chatReply = DefaultReply) <=> (~em /\ ~fe /\ ~he /\ ~re)

\* "chest pain and fever" style text: an emergency and a fever keyword, answered
\* with the emergency guidance.
C3_Witness ==
    /\ chatPc = "done"
    /\ Contains(NormalizedText, <<"c", "h", "e", "s", "t", " ", "p", "a", "i", "n">>)
    /\ Contains(NormalizedText, <<"f", "e", "v", "e", "r">>)
    /\ Contains(NormalizedText, <<"h", "e", "a", "d", "a", "c", "h", "e">>)
    /\ chatReply = EmergencyReply

\* C9: the reply depends only on the trimmed, lowercased text: the reply to a
\* text is the reply to its normalized form, a text that is empty after
\* trimming gets the greeting, and every reply is one of the six fixed strings.
C9_NormalizedOnly ==
    chatPc = "done" =>
        /\ chatReply = generate_bot_reply(NormalizedText)
        /\ (Strip(chatText) = <<>>) => chatReply = GreetingReply
        /\ chatReply \in {GreetingReply, EmergencyReply, FeverReply,
                          HeadacheReply, RespiratoryReply, DefaultReply}

\* "I have a Fever" with surrounding whitespace: not in normalized form, and
\* answered with the fever guidance.
C9_Witness ==
    /\ chatPc = "done"
    /\ chatText /= Strip(chatText)
    /\ Strip(chatText) /= NormalizedText
    /\ Contains(NormalizedText, <<"i", " ", "h", "a", "v", "e", " ", "a", " ", "f", "e", "v", "e", "r">>)
    /\ chatReply = FeverReply

-----------------------------------------------------------------------------
(* Properties of local_emergency, checked under SpecLookup. *)

\* C6: the lookup is case-insensitive and total: a code whose lowercase form
\* is a key of the table gets that key's number whatever its letter case, and
\* any other code, the empty string included, gets the number an absent code
\* gets, which is the global default.
C6_CaseInsensitiveTotal ==
    lookupPc = "done" =>
        /\ number \in {DEFAULT_EMERGENCY_NUMBERS[i].value :
                           i \in 1..Len(DEFAULT_EMERGENCY_NUMBERS)}
        /\ (cc /= None /\ HasKey(DEFAULT_EMERGENCY_NUMBERS, Lower(cc))) =>
               number = Item(DEFAULT_EMERGENCY_NUMBERS, Lower(cc))
        /\ (cc /= None /\ ~HasKey(DEFAULT_EMERGENCY_NUMBERS, Lower(cc))) =>
               /\ number = local_emergency(None)
               /\ number = Item(DEFAULT_EMERGENCY_NUMBERS, <<"g", "l", "o", "b", "a", "l">>)

\* "Us": a mixed-case code of a table key, answered with the key's number,
\* which is not the global default.
C6_Witness ==
    /\ lookupPc = "done"
    /\ cc /= Lower(cc)
    /\ Lower(cc) = <<"u", "s">>
    /\ number = <<"9", "1", "1">>

\* The first two characters of a code, lowercased.
FirstTwoLower(code) == Lower(SubSeq(code, 1, IF Len(code) < 2 THEN Len(code) ELSE 2))

\* C7 (as stated): two country codes whose first two characters agree after
\* lowercasing get the same emergency number.
C7_FirstTwoCharacters ==
    (lookupPc = "done" /\ cc /= None) =>
        \A other \in CountryCodes \ {None} :
            FirstTwoLower(other) = FirstTwoLower(cc) =>
                local_emergency(other) = number

\* C7 (amended): two country codes that agree after lowercasing, in full,
\* get the same emergency number.
C7_WholeCodeLowercased ==
    (lookupPc = "done" /\ cc /= None) =>
        \A other \in CountryCodes \ {None} :
            Lower(other) = Lower(cc) => local_emergency(other) = number

\* "US" has been looked up and got the number of "us".
C7_Witness ==
    /\ lookupPc = "done"
    /\ cc = <<"U", "S">>
    /\ number = local_emergency(<<"u", "s">>)
    /\ number /= local_emergency(None)

-----------------------------------------------------------------------------
(* Properties of emergency_lookup, checked under SpecEmergency. *)

BothCoordinates == lat /= None /\ lon /= None

\* "Local emergency: " followed by the number for the request's country.
SynthesizedPhone == <<"L", "o", "c", "a", "l", " ", "e", "m", "e", "r", "g", "e", "n", "c", "y", ":", " ">> \o local_emergency(country)

\* C1: whatever the parameters and whatever the outcome of the geocoding call,
\* the handler ends in a record and never in an error.
C1_NeverFails == emPc = "done" => result = "record"

\* C2: a returned record has a non-empty name and a non-empty phone.
C2_NameAndPhoneNonEmpty ==
    result = "record" =>
        /\ IsStr(name) /\ Len(name) > 0
        /\ IsStr(phone) /\ Len(phone) > 0

\* A record returned after a result whose display_name and phone are both the
\* empty string, with no q to fall back on.
C2_Witness ==
    /\ result = "record"
    /\ resp.kind = "list"
    /\ resp.item.display_name = <<>>
    /\ resp.item.extratags = "object"
    /\ resp.item.phoneTag = <<>>
    /\ ~Truthy(q)
    /\ ~Truthy(country)

\* Some sample's city is contained in the lowercased q.
SampleMatches ==
    /\ Truthy(q)
    /\ \E i \in 1..Len(SAMPLE_HOSPITALS) :
           Contains(Lower(q), SAMPLE_HOSPITALS[i].city)

\* Name, address and phone are those of the first sample, in table order,
\* whose city is contained in the lowercased q.
FromFirstSample ==
    \E i \in 1..Len(SAMPLE_HOSPITALS) :
        /\ Contains(Lower(q), SAMPLE_HOSPITALS[i].city)
        /\ \A j \in 1..(i - 1) : ~Contains(Lower(q), SAMPLE_HOSPITALS[j].city)
        /\ name = SAMPLE_HOSPITALS[i].name
        /\ address = SAMPLE_HOSPITALS[i].address
        /\ phone = SAMPLE_HOSPITALS[i].phone

\* The generic placeholder with the raw q, or "Your area", as its address.
IsPlaceholder ==
    /\ name = <<"N", "e", "a", "r", "e", "s", "t", " ", "E", "m", "e", "r", "g", "e", "n", "c", "y", " ", "H", "o", "s", "p", "i", "t", "a", "l">>
    /\ address = (IF Truthy(q) THEN q ELSE <<"Y", "o", "u", "r", " ", "a", "r", "e", "a">>)

\* C5 (as stated): whenever the external stage yields no name, the record is
\* the first matching sample's name, address and phone, and without a match
\* the placeholder with the phone "Local emergency: " + number for country.
C5_FallbackWithoutName ==
    (result = "record" /\ ~Truthy(triedName)) =>
        IF SampleMatches THEN FromFirstSample
        ELSE IsPlaceholder /\ phone = SynthesizedPhone

\* C5 (amended): as stated, except that without a sample match the phone is
\* the one the external result carried when that is not empty, and only
\* otherwise "Local emergency: " + number for country.  Stated of the values
\* the handler hands to EmergencyResponse, whether or not it accepts them.
C5_FallbackKeepsExternalPhone ==
    (emPc = "done" /\ ~Truthy(triedName)) =>
        IF SampleMatches THEN FromFirstSample
        ELSE /\ IsPlaceholder
             /\ phone = (IF Truthy(triedPhone) THEN triedPhone
                         ELSE SynthesizedPhone)

\* Both coordinates given, the service unreachable, and a q that contains two
\* city keys, the later key of the table first: the earlier entry is returned.
C5_Witness ==
    /\ emPc = "done"
    /\ BothCoordinates
    /\ resp.kind = "exception"
    /\ q = <<"L", "o", "n", "d", "o", "n", " ", "o", "r", " ", "N", "e", "w", " ", "Y", "o", "r", "k">>
    /\ name = <<"N", "Y", "U", " ", "L", "a", "n", "g", "o", "n", "e", " ", "H", "e", "a", "l", "t", "h">>
    /\ phone = <<"+", "1", " ", "2", "1", "2", "-", "2", "6", "3", "-", "7", "3", "0", "0">>
    /\ result = "record"

\* C8: a request issues at most one geocoding call: the coordinate search
\* exactly when both coordinates are given, the text search exactly when they
\* are not both given and q is not empty, and otherwise none; a coordinate
\* search that fails or misses is not followed by a text search.
C8_AtMostOneCall ==
    /\ Len(calls) <= 1
    /\ emPc /= "search" =>
          /\ (calls = <<"coordinates">>) <=> BothCoordinates
          /\ (calls = <<"text">>) <=> (~BothCoordinates /\ Truthy(q))
          /\ (calls = <<>>) <=> (~BothCoordinates /\ ~Truthy(q))
    /\ emPc = "search" => calls = <<>>

\* Both coordinates and a q, the coordinate search answered by an empty list:
\* the request is done with that one call, resolved from the samples.
C8_Witness ==
    /\ emPc = "done"
    /\ BothCoordinates
    /\ Truthy(q)
    /\ resp.kind = "empty list"
    /\ calls = <<"coordinates">>
    /\ scanned

\* The phone of the external result, None when it carries none.
ResultPhone ==
    IF resp.item.extratags = "object" /\ resp.item.phoneTag \notin {Absent, JsonNull}
    THEN resp.item.phoneTag
    ELSE None

\* Name and address are the result's display_name (the name "Nearest
\* Hospital" and no address when the key is missing), the samples were not
\* consulted, and the phone is the result's, or else the synthesized one.
ResolvedFromResult ==
    /\ ~scanned
    /\ name /= <<"N", "e", "a", "r", "e", "s", "t", " ", "E", "m", "e", "r", "g", "e", "n", "c", "y", " ", "H", "o", "s", "p", "i", "t", "a", "l">>
    /\ name = (IF resp.item.display_name = Absent THEN <<"N", "e", "a", "r", "e", "s", "t", " ", "H", "o", "s", "p", "i", "t", "a", "l">>
               ELSE resp.item.display_name)
    /\ address = (IF resp.item.display_name = Absent THEN None
                  ELSE resp.item.display_name)
    /\ phone = (IF Truthy(ResultPhone) THEN ResultPhone ELSE SynthesizedPhone)

\* C10 (as stated): whenever the search answered with a non-empty list, the
\* handler's name, address and phone are resolved from that result and the
\* sample table and the placeholder are skipped.
C10_ResultShortCircuits ==
    (result = "record" /\ resp.kind = "list") => ResolvedFromResult

\* C10 (amended): the same, for a list whose first element is an object whose
\* display_name is missing or a non-empty value; an element that is not an
\* object, or whose display_name is null or empty, counts as a miss.  Stated
\* of the values the handler hands to EmergencyResponse.
C10_NamedResultShortCircuits ==
    (/\ emPc = "done"
     /\ resp.kind = "list"
     /\ resp.item.isObject
     /\ resp.item.display_name \notin {JsonNull, <<>>}) => ResolvedFromResult

\* A named result without a phone for a q that contains a sample city: the
\* result's name is returned with the synthesized phone.
C10_Witness ==
    /\ emPc = "done"
    /\ resp.kind = "list"
    /\ resp.item.display_name = <<"G", "e", "n", "e", "r", "a", "l", " ", "H", "o", "s", "p", "i", "t", "a", "l", ",", " ", "S", "p", "r", "i", "n", "g", "f", "i", "e", "l", "d">>
    /\ SampleMatches
    /\ name = resp.item.display_name
    /\ phone = SynthesizedPhone
    /\ result = "record"

-----------------------------------------------------------------------------
(* Properties of websocket_endpoint, checked under SpecWs. *)

\* The replies sent on c are, in order, the replies to the texts received on
\* c, each computed from its own text alone.
RepliesInOrder(c) ==
    /\ Len(sent[c]) <= Len(received[c])
    /\ \A i \in 1..Len(sent[c]) : sent[c][i] = generate_bot_reply(received[c][i])

\* C4 (as stated): on every connection, under any interleaving with the
\* others, every received message gets exactly one reply, computed from that
\* message alone and sent before the next message is received, and a peer's
\* disconnect ends that connection's loop normally.
C4_OneReplyPerMessage ==
    \A c \in Conns :
        /\ RepliesInOrder(c)
        /\ wsPc[c] \in {"receive", "closed"} => Len(sent[c]) = Len(received[c])
        /\ wsPc[c] = "send" => Len(sent[c]) + 1 = Len(received[c])
        /\ ended[c] /= "error"

\* C4 (amended): every received message gets at most one reply, computed from
\* that message alone and sent before the next message is received; only the
\* last received message can stay unanswered, when the peer disconnected
\* before its reply was sent; a loop ends only on its own peer's disconnect,
\* and ends normally.
C4_OneReplyUnlessPeerGone ==
    \A c \in Conns :
        /\ RepliesInOrder(c)
        /\ wsPc[c] = "receive" => Len(sent[c]) = Len(received[c])
        /\ wsPc[c] = "send" => Len(sent[c]) + 1 = Len(received[c])
        /\ wsPc[c] = "closed" =>
              /\ ~peerOpen[c]
              /\ ended[c] = "normal"
              /\ Len(received[c]) - Len(sent[c]) \in {0, 1}
        /\ ended[c] /= "error"

\* "headache" then "unrelated text" on one connection, answered in order,
\* while the other connection has ended on its peer's disconnect.
C4_Witness ==
    \E c, d \in Conns :
        /\ c /= d
        /\ received[c] = << <<"h", "e", "a", "d", "a", "c", "h", "e">>, <<"u", "n", "r", "e", "l", "a", "t", "e", "d", " ", "t", "e", "x", "t">> >>
        /\ sent[c] = <<HeadacheReply, DefaultReply>>
        /\ wsPc[c] = "receive"
        /\ wsPc[d] = "closed"
        /\ Len(received[d]) = 1

=============================================================================
